---- MODULE Spec2Model ----
(***************************************************************************)
(* Model of src/src/BaselineStatus.tsx: the async server component         *)
(* BaselineStatus and the helpers it calls.                                *)
(*                                                                         *)
(* Conventions.                                                            *)
(*  - A JavaScript string that is assembled from a template literal is a   *)
(*    sequence of its pieces (the literal chunks and the interpolated      *)
(*    values, empty strings dropped); the empty string is << >>.           *)
(*  - A value whose JavaScript type is decided at run time (undefined or   *)
(*    string, undefined or number, a parsed JSON value, a JSX element) is  *)
(*    a record tagged by "type", so that truthiness and typeof are         *)
(*    computed the way the language computes them.                         *)
(*  - An object with optional members is a record whose DOMAIN holds the   *)
(*    members that are present ("k" in obj  is  "k" \in DOMAIN obj).       *)
(***************************************************************************)
EXTENDS Integers, Sequences, FiniteSets, TLC

VARIABLES timeZone, pc, props, requests, response, responseJson, outcome

vars == <<timeZone, pc, props, requests, response, responseJson, outcome>>

(***************************************************************************)
(* Bounds of the model.                                                    *)
(***************************************************************************)
NumInvocations == 2
MaxUpvotes == 2

Invocations == 1..NumInvocations

(***************************************************************************)
(* Program constants.                                                      *)
(***************************************************************************)
API_ENDPOINT == "https://api.webstatus.dev/v1/features/"

BaselineStatusType == {"limited", "newly", "widely", "no_data"}

\* The typographic apostrophe of the source strings is written ' here.
BASELINE_DEFS ==
    [limited |->
        [title |-> "Limited availability",
         defaultDescription |->
            "This feature is not Baseline because it does not work in some of the most widely-used browsers."],
     newly |->
        [title |-> "",
         defaultDescription |->
            "This feature works across the latest devices and browser versions. This feature might not work in older devices or browsers."],
     widely |->
        [title |-> "Widely available",
         defaultDescription |->
            "This feature is well established and works across many devices and browser versions."],
     no_data |->
        [title |-> "Unknown availability",
         defaultDescription |->
            "We currently don't have browser support information about this feature."]]

(***************************************************************************)
(* JavaScript values.                                                      *)
(***************************************************************************)
Undefined == [type |-> "undefined"]
Str(s) == [type |-> "string", value |-> s]
Num(n) == [type |-> "number", value |-> n]
Bool(b) == [type |-> "boolean", value |-> b]
\* A JSX element (React element object); a fragment <></> is one too.
Jsx(tag, attrs) == [type |-> "object", tag |-> tag, attrs |-> attrs]
Fragment == Jsx("Fragment", << >>)

\* ToBoolean of a tagged value: undefined, "", 0 and false are falsy; every
\* object is truthy.
ToBoolean(v) ==
    CASE v.type = "undefined" -> FALSE
      [] v.type = "string"    -> v.value # ""
      [] v.type = "number"    -> v.value # 0
      [] v.type = "boolean"   -> v.value
      [] v.type = "object"    -> TRUE

TypeOf(v) == v.type

\* An interpolated string slot of a template literal.
Piece(s) == IF s = "" THEN << >> ELSE <<s>>

\* obj.key of an object with optional members: a string, a number or an
\* object when present, undefined otherwise.
StringMember(obj, key) == IF key \in DOMAIN obj THEN Str(obj[key]) ELSE Undefined

NumberMember(obj, key) == IF key \in DOMAIN obj THEN Num(obj[key]) ELSE Undefined

ObjectMember(obj, key) == IF key \in DOMAIN obj THEN obj[key] ELSE Undefined

(***************************************************************************)
(* Date handling of getBaselineDate: new Date(low_date) and                *)
(* Intl.DateTimeFormat("en-US", {year: "numeric", month: "long"}).         *)
(***************************************************************************)
MonthNames ==
    <<"January", "February", "March", "April", "May", "June", "July",
      "August", "September", "October", "November", "December">>

InvalidDate == [valid |-> FALSE]

\* new Date(s) for the date strings of the model: a date-only ISO string is
\* UTC midnight of that day, anything else here is an Invalid Date.
NewDate(s) ==
    CASE s = "2024-03-15" -> [valid |-> TRUE, year |-> 2024, month |-> 3, day |-> 15]
      [] s = "2023-01-01" -> [valid |-> TRUE, year |-> 2023, month |-> 1, day |-> 1]
      [] OTHER            -> InvalidDate

\* The runtime's offset from UTC in hours (one zone west of Greenwich, one
\* east); the formatter is given no timeZone option, so it formats in the
\* runtime's zone, the same for every invocation.
TimeZoneOffsets == {0 - 8, 9}

\* format(date): "Month YYYY" in the runtime's zone. UTC midnight of the first
\* day of a month lies in the previous month west of Greenwich.
FormatMonthYear(d, tz) ==
    LET back == tz < 0 /\ d.day = 1
        month == IF back THEN (IF d.month = 1 THEN 12 ELSE d.month - 1) ELSE d.month
        year == IF back /\ d.month = 1 THEN d.year - 1 ELSE d.year
    IN  <<MonthNames[month], " ", ToString(year)>>

\* Whether getBaselineDate throws (format of an Invalid Date: RangeError).
BaselineDateThrows(feature) ==
    /\ "low_date" \in DOMAIN feature.baseline
    /\ feature.baseline.low_date # ""
    /\ ~NewDate(feature.baseline.low_date).valid

getBaselineDate(feature, tz) ==
    IF ToBoolean(StringMember(feature.baseline, "low_date"))
    THEN FormatMonthYear(NewDate(feature.baseline.low_date), tz)
    ELSE << >>

\* date.split(" "): the pieces between the separators.
SplitOnSpace(text) == SelectSeq(text, LAMBDA p : p # " ")

(***************************************************************************)
(* getDescriptionDate                                                      *)
(***************************************************************************)
\* getDescriptionDate interpolating the date without testing it.
getDescriptionDate_NoDateGuard(baseline, date) ==
    IF baseline = "newly"
    THEN <<"Since ">> \o date
         \o <<" this feature works across the latest\n    devices and browser versions. This feature might not work in older\n    devices or browsers.">>
    ELSE IF baseline = "widely"
    THEN <<"This feature is well established and works across many\n    devices and browser versions. It's been available across browsers\n    since ">>
         \o date
    ELSE <<BASELINE_DEFS[baseline].defaultDescription>>

getDescriptionDate(baseline, date) ==
    IF baseline = "newly" /\ date # << >>
    THEN <<"Since ">> \o date
         \o <<" this feature works across the latest\n    devices and browser versions. This feature might not work in older\n    devices or browsers.">>
    ELSE IF baseline = "widely" /\ date # << >>
    THEN <<"This feature is well established and works across many\n    devices and browser versions. It's been available across browsers\n    since ">>
         \o date
    ELSE <<BASELINE_DEFS[baseline].defaultDescription>>

(***************************************************************************)
(* getAriaLabel, checkAvailability, getStatus, renderSupportIcon           *)
(***************************************************************************)
\* The word after "Supported in <Browser>: ".
BrowserWord(token) == IF token = "available" THEN "yes" ELSE token

\* getAriaLabel without the "Unknown availability" branch.
getAriaLabel_NoUnknownBranch(title, year, badge, chrome, edge, firefox, safari) ==
    <<"Baseline: ">> \o Piece(title)
    \o (IF year # "" THEN <<" ", year>> ELSE << >>)
    \o (IF ToBoolean(badge) THEN <<" (newly available)">> ELSE << >>)
    \o <<". Supported in Chrome: ", BrowserWord(chrome),
         ". Supported in Edge: ", BrowserWord(edge),
         ". Supported in Firefox: ", BrowserWord(firefox),
         ". Supported in Safari: ", BrowserWord(safari), ".">>

getAriaLabel(title, year, badge, chrome, edge, firefox, safari) ==
    LET unknown == title = "Unknown availability"
        c == IF unknown THEN "unknown" ELSE chrome
        e == IF unknown THEN "unknown" ELSE edge
        f == IF unknown THEN "unknown" ELSE firefox
        s == IF unknown THEN "unknown" ELSE safari
    IN  <<"Baseline: ">> \o Piece(title)
        \o (IF year # "" THEN <<" ", year>> ELSE << >>)
        \o (IF ToBoolean(badge) THEN <<" (newly available)">> ELSE << >>)
        \o <<". Supported in Chrome: ", BrowserWord(c),
             ". Supported in Edge: ", BrowserWord(e),
             ". Supported in Firefox: ", BrowserWord(f),
             ". Supported in Safari: ", BrowserWord(s), ".">>

\* implementations is a sequence of records {status} or Undefined.
\* checkAvailability with some() in place of every().
checkAvailability_Some(implementations) ==
    \E k \in 1..Len(implementations) :
        /\ implementations[k] # Undefined
        /\ implementations[k].status = "available"

checkAvailability(implementations) ==
    \A k \in 1..Len(implementations) :
        /\ implementations[k] # Undefined
        /\ implementations[k].status = "available"

getStatus(implementations) ==
    IF checkAvailability(implementations) THEN "available" ELSE "no"

\* The style table of renderSupportIcon (CSS-module class keys).
supportStyles ==
    [available   |-> "supportAvailable",
     newly       |-> "supportNewly",
     no_data     |-> "supportNoData",
     unavailable |-> "supportUnavailable",
     widely      |-> "supportWidely"]

\* const support = ... of renderSupportIcon.
\* The classification taken per browser under every tier.
SupportOf_PerBrowserAlways(baseline, implementations) ==
    IF checkAvailability(implementations) THEN "available" ELSE "unavailable"

SupportOf(baseline, implementations) ==
    IF baseline = "limited"
    THEN (IF checkAvailability(implementations) THEN "available" ELSE "unavailable")
    ELSE baseline

renderSupportIcon(baseline, implementations) ==
    LET support == SupportOf(baseline, implementations)
        icon == IF support = "newly" \/ support = "widely" THEN "available" ELSE support
    IN  Jsx("span", [className |-> StringMember(supportStyles, support), icon |-> icon])

(***************************************************************************)
(* BaselineStatus: the part of the component that runs after               *)
(* response.json() has resolved (lines 180-287), as one value: the JSX it  *)
(* returns or the exception it throws.                                     *)
(***************************************************************************)
FETCH_CACHE_TTL_SECONDS == 60 * 60 * 24 * 7

OpenInNewTab(p) == IF "openInNewTab" \in DOMAIN p THEN p.openInNewTab ELSE FALSE

missingFeature(featureId) ==
    [baseline |-> [status |-> "no_data"],
     name |-> IF featureId # "" THEN featureId ELSE "Unknown feature"]

\* "baseline" in responseJson: a TypeError unless the right operand is an object
\* (an array is one).
InOperatorThrows(json) == json.type \notin {"object", "array"}

HasBaseline(json) == json.type = "object" /\ "baseline" \in DOMAIN json.value

\* The feature chosen without looking at response.ok.
FeatureOf_IgnoreOk(p, resp, json) ==
    IF HasBaseline(json) THEN json.value ELSE missingFeature(p.featureId)

\* const feature = response.ok && "baseline" in responseJson ? ... : missingFeature
FeatureOf(p, resp, json) ==
    IF resp.ok /\ HasBaseline(json) THEN json.value ELSE missingFeature(p.featureId)

\* const { title } = BASELINE_DEFS[baseline] destructures undefined when the
\* status is missing or is no key of the table.
TitleLookupThrows(feature) ==
    \/ "status" \notin DOMAIN feature.baseline
    \/ feature.baseline.status \notin DOMAIN BASELINE_DEFS

\* One destructured member of browser_implementations ({} when absent).
Implementation(feature, key) ==
    IF "browser_implementations" \in DOMAIN feature
    THEN ObjectMember(feature.browser_implementations, key)
    ELSE Undefined

Signals(feature) ==
    IF "developer_signals" \in DOMAIN feature THEN feature.developer_signals ELSE << >>

BadgeOf(baseline) ==
    IF baseline = "newly"
    THEN Jsx("span", [className |-> "baselineBadge", children |-> "newly available"])
    ELSE Fragment

\* The target without the openInNewTab test.
LinkTarget_AlwaysBlank(openInNewTab) == "_blank"

LinkTarget(openInNewTab) == IF openInNewTab THEN "_blank" ELSE "_top"

\* An <a>: rel is undefined, so no attribute, unless openInNewTab.
Anchor(href, openInNewTab, more) ==
    LET base == [href |-> href, target |-> LinkTarget(openInNewTab)] @@ more
    IN  Jsx("a", IF openInNewTab THEN base @@ [rel |-> "noopener noreferrer"] ELSE base)

\* The title without the singular case.
UpvoteTitle_AlwaysPlural(upvotes) ==
    <<ToString(upvotes), " developer upvote", "s",
      ". Need this feature across browsers? Click this and upvote it on GitHub.">>

UpvoteTitle(upvotes) ==
    <<ToString(upvotes), " developer upvote">>
    \o Piece(IF upvotes = 1 THEN "" ELSE "s")
    \o <<". Need this feature across browsers? Click this and upvote it on GitHub.">>

\* upvoteUrl && typeof upvotes === "number"
ShowUpvotes(upvoteUrl, upvotes) ==
    ToBoolean(upvoteUrl) /\ TypeOf(upvotes) = "number"

\* The returned element, as the record of what it shows.
Render(p, feature, tz) ==
    LET featureId == p.featureId
        openInNewTab == OpenInNewTab(p)
        baseline == feature.baseline.status
        preTitle == IF baseline = "limited" \/ baseline = "no_data"
                    THEN Fragment ELSE Jsx("strong", [children |-> "Baseline"])
        title == BASELINE_DEFS[baseline].title
        badge == BadgeOf(baseline)
        baselineDate == getBaselineDate(feature, tz)
        description == getDescriptionDate(baseline, baselineDate)
        year == IF baseline = "newly" /\ baselineDate # << >>
                THEN SplitOnSpace(baselineDate)[2] ELSE ""
        chrome == Implementation(feature, "chrome")
        chromeAndroid == Implementation(feature, "chrome_android")
        edge == Implementation(feature, "edge")
        firefox == Implementation(feature, "firefox")
        firefoxAndroid == Implementation(feature, "firefox_android")
        safari == Implementation(feature, "safari")
        safariIos == Implementation(feature, "safari_ios")
        upvoteUrl == StringMember(Signals(feature), "link")
        upvotes == NumberMember(Signals(feature), "upvotes")
    IN  [name |-> feature.name,
         upvote |->
            IF ShowUpvotes(upvoteUrl, upvotes)
            THEN <<Anchor(upvoteUrl.value, openInNewTab,
                          [title |-> UpvoteTitle(upvotes.value),
                           children |-> upvotes.value])>>
            ELSE << >>,
         ariaLabel |->
            getAriaLabel(title, year, badge,
                         getStatus(<<chrome, chromeAndroid>>),
                         getStatus(<<edge>>),
                         getStatus(<<firefox, firefoxAndroid>>),
                         getStatus(<<safari, safariIos>>)),
         baselineIcon |-> baseline,
         preTitle |-> preTitle,
         title |-> title,
         year |-> year,
         badge |-> badge,
         chrome |-> renderSupportIcon(baseline, <<chrome, chromeAndroid>>),
         edge |-> renderSupportIcon(baseline, <<edge>>),
         firefox |-> renderSupportIcon(baseline, <<firefox, firefoxAndroid>>),
         safari |-> renderSupportIcon(baseline, <<safari, safariIos>>),
         description |-> description,
         learnMore |->
            IF baseline = "no_data" THEN << >>
            ELSE <<Anchor("https://github.com/web-platform-dx/web-features/blob/main/features/"
                            \o featureId \o ".yml",
                          openInNewTab, << >>)>>]

Pending == [status |-> "pending"]
Rejected(reason) == [status |-> "rejected", reason |-> reason]
Fulfilled(value) == [status |-> "fulfilled", value |-> value]

\* How the promise of the invocation settles once the body has been parsed.
Continue(p, resp, json, tz) ==
    IF resp.ok /\ InOperatorThrows(json) THEN Rejected("TypeError")
    ELSE LET feature == FeatureOf(p, resp, json)
         IN  IF TitleLookupThrows(feature) THEN Rejected("TypeError")
             ELSE IF BaselineDateThrows(feature) THEN Rejected("RangeError")
             ELSE Fulfilled(Render(p, feature, tz))

(***************************************************************************)
(* The inputs: the props of an invocation and what the network returns.    *)
(***************************************************************************)
FeatureIds == {"", "anchor-positioning"}

PropsSet ==
    [featureId : FeatureIds] \cup [featureId : FeatureIds, openInNewTab : BOOLEAN]

HttpStatuses == {200, 404}

ResponseOf(status) == [status |-> status, ok |-> status \in 200..299]

BrowserKeys ==
    {"chrome", "chrome_android", "edge", "firefox", "firefox_android", "safari", "safari_ios"}

ImplementationRecords == {[status |-> "available"], [status |-> "unavailable"]}

\* Every browser_implementations object: any of the seven keys present or not.
BrowserImplementations ==
    UNION {[keys -> ImplementationRecords] : keys \in SUBSET BrowserKeys}

LowDates == {"", "2024-03-15", "2023-01-01", "not-a-date"}

BaselineRecords ==
    [status : BaselineStatusType]
        \cup [status : BaselineStatusType, low_date : LowDates]

UpvoteLinks == {"", "https://github.com/web-platform-dx/developer-signals/issues/1"}

DeveloperSignals ==
    [link : UpvoteLinks] \cup [link : UpvoteLinks, upvotes : (0 - 1)..MaxUpvotes]

Object(fields) == [type |-> "object", value |-> fields]

\* Payloads that vary the per-browser records under every tier.
BodiesBrowsers ==
    {Object([name |-> "Anchor positioning", baseline |-> [status |-> t],
             browser_implementations |-> b]) :
        t \in BaselineStatusType, b \in BrowserImplementations}

SomeImplementations ==
    {[k \in BrowserKeys |-> [status |-> "available"]],
     [k \in {"chrome", "edge"} |-> [status |-> "available"]]}

\* Payloads that vary the date and the developer signals under every tier.
BodiesText ==
    {Object([name |-> "Anchor positioning", baseline |-> b]) : b \in BaselineRecords}
    \cup
    {Object([name |-> "Anchor positioning", baseline |-> b, developer_signals |-> d]) :
        b \in BaselineRecords, d \in DeveloperSignals}
    \cup
    {Object([name |-> "Anchor positioning", baseline |-> b, developer_signals |-> d,
             browser_implementations |-> i]) :
        b \in [status : BaselineStatusType], d \in DeveloperSignals,
        i \in SomeImplementations}

\* Bodies that are no feature payload: the API's error object, a baseline
\* without status, and JSON values that are no object.
BodiesOther ==
    {Object([code |-> 404, message |-> "Not Found"]),
     Object([name |-> "Anchor positioning", baseline |-> << >>]),
     [type |-> "array"], [type |-> "null"],
     Num(404), Str("Not Found"), Bool(FALSE)}

ResponseBodies == BodiesBrowsers \cup BodiesText \cup BodiesOther

\* The props and bodies of the runs with several invocations in flight.
FewProps ==
    {[featureId |-> "anchor-positioning"],
     [featureId |-> "grid", openInNewTab |-> TRUE]}

FewBodies ==
    {Object([name |-> "Anchor positioning",
             baseline |-> [status |-> "newly", low_date |-> "2024-03-15"],
             developer_signals |-> [link |-> "https://github.com/web-platform-dx/developer-signals/issues/1",
                                    upvotes |-> 1]]),
     Object([code |-> 404, message |-> "Not Found"]),
     [type |-> "null"]}

(***************************************************************************)
(* The invocations of BaselineStatus.                                      *)
(***************************************************************************)
Init ==
    /\ timeZone \in TimeZoneOffsets
    /\ pc = [i \in Invocations |-> "idle"]
    /\ props = [i \in Invocations |-> Undefined]
    /\ requests = [i \in Invocations |-> << >>]
    /\ response = [i \in Invocations |-> Undefined]
    /\ responseJson = [i \in Invocations |-> Undefined]
    /\ outcome = [i \in Invocations |-> Pending]

\* The request to the bare endpoint.
RequestOf_OtherUrl(p) ==
    [url |-> API_ENDPOINT, cache |-> "force-cache",
     revalidate |-> FETCH_CACHE_TTL_SECONDS]

\* The request of lines 172-176.
RequestOf(p) ==
    [url |-> API_ENDPOINT \o p.featureId, cache |-> "force-cache",
     revalidate |-> FETCH_CACHE_TTL_SECONDS]

\* The caller invokes the component with some props: the url is built, fetch
\* is called and the function suspends on its promise.
Invoke(i, propsSet) ==
    /\ pc[i] = "idle"
    /\ \E p \in propsSet :
          /\ props' = [props EXCEPT ![i] = p]
          /\ requests' = [requests EXCEPT ![i] = Append(@, RequestOf(p))]
    /\ pc' = [pc EXCEPT ![i] = "awaitFetch"]
    /\ UNCHANGED <<timeZone, response, responseJson, outcome>>

\* fetch resolves with a response; response.json() is called and the function
\* suspends on its promise.
FetchResolve(i) ==
    /\ pc[i] = "awaitFetch"
    /\ \E status \in HttpStatuses :
          response' = [response EXCEPT ![i] = ResponseOf(status)]
    /\ pc' = [pc EXCEPT ![i] = "awaitJson"]
    /\ UNCHANGED <<timeZone, props, requests, responseJson, outcome>>

\* fetch rejects (network error): the await throws and nothing catches it.
FetchReject(i) ==
    /\ pc[i] = "awaitFetch"
    /\ outcome' = [outcome EXCEPT ![i] = Rejected("TypeError: fetch failed")]
    /\ pc' = [pc EXCEPT ![i] = "settled"]
    /\ UNCHANGED <<timeZone, props, requests, response, responseJson>>

\* response.json() resolves with one of bodies: the rest of the function runs
\* to its return (or to the exception it throws) without suspending again.
JsonResolve(i, bodies) ==
    /\ pc[i] = "awaitJson"
    /\ \E json \in bodies :
          /\ responseJson' = [responseJson EXCEPT ![i] = json]
          /\ outcome' = [outcome EXCEPT ![i] =
                Continue(props[i], response[i], json, timeZone)]
    /\ pc' = [pc EXCEPT ![i] = "settled"]
    /\ UNCHANGED <<timeZone, props, requests, response>>

\* response.json() rejects (the body is no JSON): the await throws.
JsonReject(i) ==
    /\ pc[i] = "awaitJson"
    /\ outcome' = [outcome EXCEPT ![i] = Rejected("SyntaxError")]
    /\ pc' = [pc EXCEPT ![i] = "settled"]
    /\ UNCHANGED <<timeZone, props, requests, response, responseJson>>

\* One invocation, over every input of the model.
Solo == {1}

Next ==
    \E i \in Solo :
        \/ Invoke(i, PropsSet)
        \/ FetchResolve(i)
        \/ FetchReject(i)
        \/ JsonResolve(i, ResponseBodies)
        \/ JsonReject(i)

Spec == Init /\ [][Next]_vars

\* Several invocations in flight at once, their steps interleaved.
NextInterleaved ==
    \E i \in Invocations :
        \/ Invoke(i, FewProps)
        \/ FetchResolve(i)
        \/ FetchReject(i)
        \/ JsonResolve(i, FewBodies)
        \/ JsonReject(i)

SpecInterleaved == Init /\ [][NextInterleaved]_vars

(***************************************************************************)
(* What the properties below read off a state: the inputs of an invocation *)
(* and the element it returned.                                            *)
(***************************************************************************)
Returned(i) == pc[i] = "settled" /\ outcome[i].status = "fulfilled"

View(i) == outcome[i].value

Parsed(i) == responseJson[i] # Undefined

\* The response was a success and its body an object with a baseline member.
GotPayload(i) ==
    /\ response[i] # Undefined /\ response[i].status \in 200..299
    /\ Parsed(i) /\ responseJson[i].type = "object"
    /\ "baseline" \in DOMAIN responseJson[i].value

Payload(i) == responseJson[i].value

Tier(i) == IF GotPayload(i) THEN Payload(i).baseline.status ELSE "no_data"

\* The raw keys behind each logical browser.
Variants ==
    [chrome  |-> {"chrome", "chrome_android"},
     edge    |-> {"edge"},
     firefox |-> {"firefox", "firefox_android"},
     safari  |-> {"safari", "safari_ios"}]

LogicalBrowsers == DOMAIN Variants

BrowserLabel ==
    [chrome |-> "Chrome", edge |-> "Edge", firefox |-> "Firefox", safari |-> "Safari"]

\* Every variant of the logical browser has a record with status "available".
AllVariantsAvailable(i, browser) ==
    /\ GotPayload(i)
    /\ "browser_implementations" \in DOMAIN Payload(i)
    /\ \A k \in Variants[browser] :
          /\ k \in DOMAIN Payload(i).browser_implementations
          /\ Payload(i).browser_implementations[k].status = "available"

\* The piece of a text that follows the piece marker.
PieceAfter(text, marker) ==
    LET k == CHOOSE k \in 1..Len(text) : text[k] = marker
    IN  text[k + 1]

HasPiece(text, piece) == \E k \in 1..Len(text) : text[k] = piece

\* The word of the ARIA label after "Supported in <Browser>: ".
AriaWord(i, browser) ==
    PieceAfter(View(i).ariaLabel,
               ". Supported in " \o BrowserLabel[browser] \o ": ")

(***************************************************************************)
(* Properties.                                                             *)
(***************************************************************************)
NoDataDescription ==
    "We currently don't have browser support information about this feature."

\* Upstream retrieval of invocation i failed in one of the ways C1 lists: the
\* fetch rejected, the status was no success, the body was no JSON, the JSON
\* was no object, or the object lacks baseline or its status.
RetrievalFailed(i) ==
    /\ pc[i] = "settled"
    /\ \/ response[i] = Undefined
       \/ response[i].status \notin 200..299
       \/ ~Parsed(i)
       \/ responseJson[i].type # "object"
       \/ "baseline" \notin DOMAIN responseJson[i].value
       \/ "status" \notin DOMAIN responseJson[i].value.baseline

\* C1: whenever upstream retrieval fails (network error, non-success status,
\* unparseable body, non-object JSON, object without the status field) the
\* invocation does not reject: it returns the no_data view.
C1_RetrievalFailureNeverRejects ==
    \A i \in Invocations :
        RetrievalFailed(i) =>
            /\ outcome[i].status = "fulfilled"
            /\ View(i).baselineIcon = "no_data"

\* C2: after a non-OK response whose body is a JSON object (whatever it
\* holds) the returned view is the no_data fallback: tier no_data, name the
\* featureId or "Unknown feature", no year, no upvote link, every support icon
\* drawn as no_data, the no_data default description, and "unknown" for all
\* four browsers in the ARIA label.
C2_NonOkGivesNoDataView ==
    \A i \in Invocations :
        (/\ pc[i] = "settled" /\ response[i] # Undefined
         /\ response[i].status \notin 200..299
         /\ Parsed(i) /\ responseJson[i].type = "object")
        =>
        /\ outcome[i].status = "fulfilled"
        /\ View(i).baselineIcon = "no_data"
        /\ View(i).title = "Unknown availability"
        /\ View(i).name = (IF props[i].featureId = "" THEN "Unknown feature"
                           ELSE props[i].featureId)
        /\ View(i).year = ""
        /\ View(i).upvote = << >>
        /\ View(i).description = <<NoDataDescription>>
        /\ \A b \in LogicalBrowsers :
              /\ AriaWord(i, b) = "unknown"
              /\ View(i)[b].attrs.className = Str("supportNoData")

C2_Witness ==
    \E i \in Invocations :
        /\ Returned(i) /\ response[i].status = 404
        /\ responseJson[i].type = "object"
        /\ "baseline" \in DOMAIN responseJson[i].value
        /\ responseJson[i].value.baseline = [status |-> "widely"]
        /\ "browser_implementations" \in DOMAIN responseJson[i].value
        /\ "chrome" \in DOMAIN responseJson[i].value.browser_implementations
        /\ props[i].featureId = ""
        /\ View(i).name = "Unknown feature"
        /\ AriaWord(i, "chrome") = "unknown"

\* C3: for each of the four logical browsers checkAvailability is true exactly
\* when every variant's record is present with status "available"; seen in the
\* ARIA word (tiers other than no_data) and in the icon of the limited tier.
C3_AvailabilityIsConjunction ==
    \A i \in Invocations :
        (Returned(i) /\ GotPayload(i)) =>
            \A b \in LogicalBrowsers :
                LET records == IF "browser_implementations" \in DOMAIN Payload(i)
                               THEN Payload(i).browser_implementations ELSE << >>
                    all == \A k \in Variants[b] :
                              k \in DOMAIN records /\ records[k].status = "available"
                IN  /\ Tier(i) # "no_data" => (AriaWord(i, b) = "yes" <=> all)
                    /\ Tier(i) = "limited" =>
                          (View(i)[b].attrs.icon = "available" <=> all)

\* Desktop available, mobile absent: not available.
C3_Witness ==
    \E i \in Invocations :
        /\ Returned(i) /\ GotPayload(i) /\ Tier(i) = "limited"
        /\ "browser_implementations" \in DOMAIN Payload(i)
        /\ DOMAIN Payload(i).browser_implementations = {"chrome", "edge"}
        /\ Payload(i).browser_implementations["chrome"].status = "available"
        /\ Payload(i).browser_implementations["edge"].status = "available"
        /\ AriaWord(i, "chrome") = "no"
        /\ AriaWord(i, "edge") = "yes"
        /\ View(i)["chrome"].attrs.icon = "unavailable"

\* The classification C4 states for a browser of invocation i.
ExpectedSupport(i, b) ==
    IF Tier(i) = "limited"
    THEN (IF AllVariantsAvailable(i, b) THEN "available" ELSE "unavailable")
    ELSE Tier(i)

StyleOfSupport ==
    [available |-> "supportAvailable", unavailable |-> "supportUnavailable",
     newly |-> "supportNewly", widely |-> "supportWidely", no_data |-> "supportNoData"]

\* C4: the support icon of a browser is classified available/unavailable by
\* the browser's conjunction when the tier is limited, and as the tier itself
\* otherwise, whatever the browser's records; the classification is one of
\* five values and has a style entry.
C4_SupportIconClassification ==
    \A i \in Invocations :
        Returned(i) =>
            \A b \in LogicalBrowsers :
                /\ ExpectedSupport(i, b) \in DOMAIN StyleOfSupport
                /\ View(i)[b].attrs.className = Str(StyleOfSupport[ExpectedSupport(i, b)])

\* Tier widely, Safari desktop unavailable and iOS available: still widely.
C4_Witness ==
    \E i \in Invocations :
        /\ Returned(i) /\ GotPayload(i) /\ Tier(i) = "widely"
        /\ "browser_implementations" \in DOMAIN Payload(i)
        /\ {"safari", "safari_ios"} \subseteq DOMAIN Payload(i).browser_implementations
        /\ Payload(i).browser_implementations["safari"].status = "unavailable"
        /\ Payload(i).browser_implementations["safari_ios"].status = "available"
        /\ View(i)["safari"].attrs.className = Str("supportWidely")

\* C5: the ARIA label contains " (newly available)" exactly when the tier is
\* newly.
C5_NewlySuffixOnlyForNewly ==
    \A i \in Invocations :
        Returned(i) =>
            (HasPiece(View(i).ariaLabel, " (newly available)") <=> Tier(i) = "newly")

\* C6: in the ARIA label each browser word is "yes" when the browser's status
\* token is "available" and the token ("no") otherwise, except under tier
\* no_data, where all four are "unknown" whatever implementation data the
\* payload carries; under any other tier no word is "unknown".
C6_AriaBrowserWords ==
    \A i \in Invocations :
        Returned(i) =>
            \A b \in LogicalBrowsers :
                AriaWord(i, b) =
                    IF Tier(i) = "no_data" THEN "unknown"
                    ELSE IF AllVariantsAvailable(i, b) THEN "yes" ELSE "no"

\* Upstream reports no_data together with implementation data.
C6_Witness ==
    \E i \in Invocations :
        /\ Returned(i) /\ GotPayload(i) /\ Tier(i) = "no_data"
        /\ AllVariantsAvailable(i, "chrome")
        /\ AriaWord(i, "chrome") = "unknown"
        /\ AriaWord(i, "safari") = "unknown"

HasLowDate(i) ==
    /\ GotPayload(i)
    /\ "low_date" \in DOMAIN Payload(i).baseline
    /\ Payload(i).baseline.low_date # ""

MonthNameSet == {MonthNames[m] : m \in 1..12}

NewlyTail ==
    " this feature works across the latest\n    devices and browser versions. This feature might not work in older\n    devices or browsers."

WidelyHead ==
    "This feature is well established and works across many\n    devices and browser versions. It's been available across browsers\n    since "

\* C7: the description is the dated sentence only when the tier is newly or
\* widely and there is a date; otherwise it is exactly the tier's default
\* description. No description has "Since "/"since " followed by nothing.
C7_DescriptionDateGuard ==
    \A i \in Invocations :
        Returned(i) =>
            LET d == View(i).description
            IN  /\ IF Tier(i) = "newly" /\ HasLowDate(i)
                   THEN /\ Len(d) = 5 /\ d[1] = "Since " /\ d[5] = NewlyTail
                        /\ d[2] \in MonthNameSet /\ d[3] = " " /\ d[4] # ""
                   ELSE IF Tier(i) = "widely" /\ HasLowDate(i)
                   THEN /\ Len(d) = 4 /\ d[1] = WidelyHead
                        /\ d[2] \in MonthNameSet /\ d[3] = " " /\ d[4] # ""
                   ELSE d = <<BASELINE_DEFS[Tier(i)].defaultDescription>>
                /\ \A k \in 1..Len(d) :
                      d[k] \in {"Since ", WidelyHead} =>
                          k < Len(d) /\ d[k + 1] \in MonthNameSet

C7_Witness ==
    \E i \in Invocations :
        /\ Returned(i) /\ Tier(i) = "newly" /\ HasLowDate(i)
        /\ Payload(i).baseline.low_date = "2024-03-15"
        /\ View(i).description = <<"Since ", "March", " ", "2024", NewlyTail>>

\* The payload of invocation i carries developer signals with a link and an
\* integer upvote count.
HasSignals(i) ==
    /\ GotPayload(i)
    /\ "developer_signals" \in DOMAIN Payload(i)
    /\ {"link", "upvotes"} \subseteq DOMAIN Payload(i).developer_signals
    /\ Payload(i).developer_signals.link # ""

\* C8: with a link and an integer upvote count N the upvote link is rendered
\* for every N (0 included) and its label starts "1 developer upvote" (no s)
\* exactly when N = 1 and "N developer upvotes" otherwise.
C8_UpvoteLabelPlural ==
    \A i \in Invocations :
        (Returned(i) /\ HasSignals(i)) =>
            LET n == Payload(i).developer_signals.upvotes
            IN  /\ Len(View(i).upvote) = 1
                /\ LET label == View(i).upvote[1].attrs.title
                   IN  /\ label[1] = ToString(n)
                       /\ label[2] = " developer upvote"
                       /\ (label[3] = "s") <=> (n # 1)
                       /\ n = 1 => label[1] = "1" /\ label[3] # "s"

C8_Witness ==
    \E i \in Invocations :
        /\ Returned(i) /\ HasSignals(i)
        /\ Payload(i).developer_signals.upvotes = 0
        /\ Len(View(i).upvote) = 1
        /\ View(i).upvote[1].attrs.title[1] = "0"
        /\ View(i).upvote[1].attrs.title[3] = "s"

\* Every external link of the returned element.
Links(i) ==
    {View(i).upvote[k] : k \in 1..Len(View(i).upvote)}
        \cup {View(i).learnMore[k] : k \in 1..Len(View(i).learnMore)}

\* C9: every rendered external link has target "_blank" with rel
\* "noopener noreferrer" when openInNewTab is true, and target "_top" without
\* rel when it is false or omitted; no link has "_blank" without the rel, and
\* the links of one element agree on the target.
C9_LinkTargets ==
    \A i \in Invocations :
        Returned(i) =>
            LET newTab == "openInNewTab" \in DOMAIN props[i] /\ props[i].openInNewTab
            IN  /\ \A l \in Links(i) :
                      /\ l.tag = "a"
                      /\ IF newTab
                         THEN /\ l.attrs.target = "_blank"
                              /\ "rel" \in DOMAIN l.attrs
                              /\ l.attrs.rel = "noopener noreferrer"
                         ELSE /\ l.attrs.target = "_top"
                              /\ "rel" \notin DOMAIN l.attrs
                /\ \A l, m \in Links(i) : l.attrs.target = m.attrs.target

\* Both links rendered, openInNewTab omitted.
C9_Witness ==
    \E i \in Invocations :
        /\ Returned(i)
        /\ "openInNewTab" \notin DOMAIN props[i]
        /\ Len(View(i).upvote) = 1 /\ Len(View(i).learnMore) = 1
        /\ View(i).upvote[1].attrs.target = "_top"
        /\ View(i).learnMore[1].attrs.target = "_top"

\* C10: an invocation issues exactly one fetch, to the endpoint followed by
\* its featureId, and never a second one, whatever the response; nothing is
\* derived before the fetch and the parse have settled; and what an invocation
\* returns is determined by its own props, response and body, whatever the
\* other invocations do in between.
C10_OneFetchNoSharedState ==
    \A i \in Invocations :
        /\ Len(requests[i]) = (IF pc[i] = "idle" THEN 0 ELSE 1)
        /\ pc[i] # "idle" =>
              requests[i][1].url = "https://api.webstatus.dev/v1/features/" \o props[i].featureId
        /\ pc[i] \in {"idle", "awaitFetch", "awaitJson"} => outcome[i] = Pending
        /\ pc[i] = "settled" => outcome[i] # Pending
        /\ Returned(i) =>
              /\ View(i).name =
                    (IF GotPayload(i) THEN Payload(i).name
                     ELSE IF props[i].featureId = "" THEN "Unknown feature"
                     ELSE props[i].featureId)
              /\ View(i).baselineIcon = Tier(i)
              /\ \A j \in Invocations :
                    (/\ Returned(j) /\ props[j] = props[i]
                     /\ response[j] = response[i]
                     /\ responseJson[j] = responseJson[i])
                    => View(j) = View(i)

\* Two invocations in flight at once: the first failed with a non-OK response
\* and settled on the fallback while the second still waits for its body.
C10_Witness ==
    /\ Returned(1) /\ response[1].status = 404 /\ Tier(1) = "no_data"
    /\ Len(requests[1]) = 1
    /\ pc[2] = "awaitJson" /\ response[2].status = 200
    /\ props[1] # props[2]
    /\ Len(requests[2]) = 1

====
